---- MODULE Spec2Model ----
(***************************************************************************)
(* xidlehook: the Module composition (src/src/modules/mod.rs) and the      *)
(* daemon's main loop (src/xidlehook-daemon/src/main.rs).                  *)
(*                                                                         *)
(* Spec        : App::main_loop racing socket, signal and engine.          *)
(* SpecLive    : Spec with the fairness of the loop's own steps.           *)
(* SpecModules : calls of pre_timer/post_timer/warning/reset on composite  *)
(*               modules (pairs, nested pairs, Vec).                       *)
(* SpecChain   : the same calls on the daemon's chain ((), Vec<Box<..>>).  *)
(* SpecTimer   : one CmdTimer (src/xidlehook-daemon/src/timer.rs), built   *)
(*               by from_shell or from_parts and then operated.            *)
(***************************************************************************)
EXTENDS Integers, Sequences, FiniteSets, TLC

\* ---------------------------------------------------------------- bounds
MaxVec == 3          \* longest Vec<M> of modules that is called
MaxCmds == 4         \* socket commands the socket task sends in one run
MaxSignals == 2      \* signals the signal thread forwards in one run
MaxTicks == 2        \* idle-time ticks the engine completes in one run
MaxTime == 2         \* longest idle threshold of a CmdTimer
MaxCycles == 2       \* activations of one CmdTimer

\* ------------------------------------------------------------- constants
SocketCap == 4       \* sync::channel(4)
SignalCap == 1       \* sync::channel(1)

VARIABLES
    \* --- modules/mod.rs: the last call made on a composite module
    modTree,         \* the composite that was called
    modOp,           \* "none", "pre_timer", "post_timer", "warning", "reset"
    modOuts,         \* what each leaf member answers: id -> outcome
    modResult,       \* what the composite returned
    modCalls,        \* ids of the leaf members that were called, in order
    \* --- main.rs: App::main_loop
    pc,              \* position of main_loop
    socketConfigured,\* self.opt.socket is Some
    socketChan,      \* messages buffered in the socket channel
    socketTxAlive,   \* some Sender of the socket channel is alive
    signalChan,      \* signals buffered in the signal channel
    signalTxAlive,   \* the Sender of the signal channel is alive
    socket_rx,       \* "Some" or "None"
    signal_rx,       \* "Some" or "None"
    engine,          \* main_async future of this iteration: "none" (not
                     \* polled yet), "probing" (awaiting the idle-time
                     \* source) or "sleeping" (between two ticks)
    ticks,           \* number of ticks the engine has completed
    droppedIn,       \* what the engine run of the last finished iteration
                     \* was doing when the race dropped it, else "none"
    lastTick,        \* what the last tick did with timer 0, "none" before
    disabled,        \* CmdTimer.inner.disabled of timer 0
    replyTo,         \* command whose reply is being sent, 0 if none
    sent,            \* number of commands the socket task has sent
    signalled,       \* number of signals the signal thread has forwarded
    result,          \* "none", "Ok", "Err": what main_loop returned
    log,             \* what main_loop did, in order
    \* --- timer.rs: one CmdTimer
    timer,           \* the CmdTimer
    ctorArgs,        \* the constructor that built it and its arguments
    lastOp,          \* the last operation called on it, with its result
    prevOp,          \* the operation called before that one
    timerCalls,      \* calls of activate, abort and deactivate so far
    timerSpawns      \* processes spawned so far, for each hook

modVars == <<modTree, modOp, modOuts, modResult, modCalls>>
loopVars == <<pc, socketConfigured, socketChan, socketTxAlive, signalChan,
              signalTxAlive, socket_rx, signal_rx, engine, disabled, replyTo,
              sent, signalled, result, log, ticks, droppedIn, lastTick>>
timerVars == <<timer, ctorArgs, lastOp, prevOp, timerCalls, timerSpawns>>
vars == <<modTree, modOp, modOuts, modResult, modCalls,
          pc, socketConfigured, socketChan, socketTxAlive, signalChan,
          signalTxAlive, socket_rx, signal_rx, engine, disabled, replyTo,
          sent, signalled, result, log, ticks, droppedIn, lastTick,
          timer, ctorArgs, lastOp, prevOp, timerCalls, timerSpawns>>

\* =========================================================================
\* modules/mod.rs
\* =========================================================================

\* enum Progress
Progress == {"Continue", "Abort", "Stop"}

\* Result<Progress>: Ok(v) or Err(e); e is the id of the member that failed
OkP(v) == [ok |-> TRUE, v |-> v, err |-> 0]
\* Result<()>: Ok(())
OkU == [ok |-> TRUE, v |-> "unit", err |-> 0]
Err(e) == [ok |-> FALSE, v |-> "none", err |-> e]

\* a call's effect: the value returned and the leaf members called, in order
Ret(r, calls) == [res |-> r, calls |-> calls]

\* a module that is not a composite: member number id
Leaf(id) == [k |-> "leaf", id |-> id]
\* (A, B)
Pair(a, b) == [k |-> "pair", a |-> a, b |-> b]
\* Vec<M>
VecOf(ms) == [k |-> "vec", ms |-> ms]
\* (): the default module
Unit == [k |-> "unit"]
\* Box<dyn Module> holding the module m
Box(m) == [k |-> "box", m |-> m]

\* the entry of the calls that stands for the line `warn!` writes
UnitLog == 0

\* trait Module: the provided methods, for a type that does not override them
Module_progress_default(m, outs) == Ret(OkP("Continue"), <<>>)

Module_unit_default(m, outs) == Ret(OkU, <<>>)

\* impl Module for (): warning writes the error to the log and returns Ok(())
Unit_warning_Rethrows(m, outs) == Ret(Err(UnitLog), <<UnitLog>>)

Unit_warning(m, outs) == Ret(OkU, <<UnitLog>>)

\* what a leaf member answers to a call, from its outcome in outs
LeafProgress(m, outs) ==
    Ret(IF outs[m.id] = "Fail" THEN Err(m.id) ELSE OkP(outs[m.id]), <<m.id>>)

LeafUnit(m, outs) ==
    Ret(IF outs[m.id] = "Fail" THEN Err(m.id) ELSE OkU, <<m.id>>)

RECURSIVE pre_timer(_, _)
RECURSIVE post_timer(_, _)
RECURSIVE warning(_, _)
RECURSIVE reset(_, _)

\* impl Module for Box<dyn Module>: every method forwards to the boxed module
Box_pre_timer(m, outs) == pre_timer(m.m, outs)

Box_post_timer(m, outs) == post_timer(m.m, outs)

Box_warning(m, outs) == warning(m.m, outs)

Box_reset(m, outs) == reset(m.m, outs)

\* impl Module for (A, B): pre_timer
Pair_pre_timer_KeepsGoing(m, outs) ==
    LET ra == pre_timer(m.a, outs) IN
    IF ~ra.res.ok THEN ra
    ELSE IF ra.res.v # "Continue" THEN Ret(OkP("Continue"), ra.calls)
    ELSE LET rb == pre_timer(m.b, outs) IN Ret(rb.res, ra.calls \o rb.calls)

Pair_pre_timer(m, outs) ==
    LET ra == pre_timer(m.a, outs) IN
    IF ~ra.res.ok THEN ra
    ELSE IF ra.res.v # "Continue" THEN ra
    ELSE LET rb == pre_timer(m.b, outs) IN Ret(rb.res, ra.calls \o rb.calls)

\* impl Module for (A, B): post_timer
Pair_post_timer(m, outs) ==
    LET ra == post_timer(m.a, outs) IN
    IF ~ra.res.ok THEN ra
    ELSE IF ra.res.v # "Continue" THEN ra
    ELSE LET rb == post_timer(m.b, outs) IN Ret(rb.res, ra.calls \o rb.calls)

\* impl Module for (A, B): warning
Pair_warning_IgnoresFirst(m, outs) ==
    LET ra == warning(m.a, outs)
        rb == warning(m.b, outs) IN
    Ret(IF ~ra.res.ok THEN ra.res ELSE rb.res, ra.calls \o rb.calls)

Pair_warning(m, outs) ==
    LET ra == warning(m.a, outs) IN
    IF ~ra.res.ok THEN ra
    ELSE LET rb == warning(m.b, outs) IN Ret(rb.res, ra.calls \o rb.calls)

\* impl Module for (A, B): reset
Pair_reset(m, outs) ==
    LET ra == reset(m.a, outs) IN
    IF ~ra.res.ok THEN ra
    ELSE LET rb == reset(m.b, outs) IN Ret(rb.res, ra.calls \o rb.calls)

\* impl Module for Vec<M>: the for loops, from member i on, with the calls
\* made so far
RECURSIVE VecProgressFrom(_, _, _, _, _)
VecProgressFrom(op, ms, i, outs, calls) ==
    IF i > Len(ms) THEN Ret(OkP("Continue"), calls)
    ELSE LET r == IF op = "pre_timer" THEN pre_timer(ms[i], outs)
                  ELSE post_timer(ms[i], outs) IN
         IF ~r.res.ok THEN Ret(r.res, calls \o r.calls)
         ELSE IF r.res.v # "Continue" THEN Ret(r.res, calls \o r.calls)
         ELSE VecProgressFrom(op, ms, i + 1, outs, calls \o r.calls)

RECURSIVE VecUnitFrom(_, _, _, _, _)
VecUnitFrom(op, ms, i, outs, calls) ==
    IF i > Len(ms) THEN Ret(OkU, calls)
    ELSE LET r == IF op = "warning" THEN warning(ms[i], outs)
                  ELSE reset(ms[i], outs) IN
         IF ~r.res.ok THEN Ret(r.res, calls \o r.calls)
         ELSE VecUnitFrom(op, ms, i + 1, outs, calls \o r.calls)

Vec_pre_timer_NoShortCircuit(m, outs) ==
    LET r == VecProgressFrom("pre_timer", m.ms, 1, outs, <<>>) IN
    IF r.res.ok /\ r.res.v # "Continue" /\ Len(r.calls) < Len(m.ms)
    THEN VecProgressFrom("pre_timer", m.ms, Len(r.calls) + 1, outs, r.calls)
    ELSE r

Vec_pre_timer(m, outs) == VecProgressFrom("pre_timer", m.ms, 1, outs, <<>>)

Vec_post_timer(m, outs) == VecProgressFrom("post_timer", m.ms, 1, outs, <<>>)

Vec_warning_SwallowsFailure(m, outs) ==
    Ret(OkU, VecUnitFrom("warning", m.ms, 1, outs, <<>>).calls)

Vec_warning(m, outs) == VecUnitFrom("warning", m.ms, 1, outs, <<>>)

Vec_reset(m, outs) == VecUnitFrom("reset", m.ms, 1, outs, <<>>)

\* trait Module, dispatched on the implementing type
pre_timer(m, outs) ==
    CASE m.k = "leaf" -> LeafProgress(m, outs)
      [] m.k = "pair" -> Pair_pre_timer(m, outs)
      [] m.k = "vec" -> Vec_pre_timer(m, outs)
      [] m.k = "unit" -> Module_progress_default(m, outs)
      [] m.k = "box" -> Box_pre_timer(m, outs)

post_timer(m, outs) ==
    CASE m.k = "leaf" -> LeafProgress(m, outs)
      [] m.k = "pair" -> Pair_post_timer(m, outs)
      [] m.k = "vec" -> Vec_post_timer(m, outs)
      [] m.k = "unit" -> Module_progress_default(m, outs)
      [] m.k = "box" -> Box_post_timer(m, outs)

warning(m, outs) ==
    CASE m.k = "leaf" -> LeafUnit(m, outs)
      [] m.k = "pair" -> Pair_warning(m, outs)
      [] m.k = "vec" -> Vec_warning(m, outs)
      [] m.k = "unit" -> Unit_warning(m, outs)
      [] m.k = "box" -> Box_warning(m, outs)

reset(m, outs) ==
    CASE m.k = "leaf" -> LeafUnit(m, outs)
      [] m.k = "pair" -> Pair_reset(m, outs)
      [] m.k = "vec" -> Vec_reset(m, outs)
      [] m.k = "unit" -> Module_unit_default(m, outs)
      [] m.k = "box" -> Box_reset(m, outs)

\* a call of operation op on module m
Call(op, m, outs) ==
    CASE op = "pre_timer" -> pre_timer(m, outs)
      [] op = "post_timer" -> post_timer(m, outs)
      [] op = "warning" -> warning(m, outs)
      [] op = "reset" -> reset(m, outs)

\* the composites that are called
LeafSeq(n) == [i \in 1..n |-> Leaf(i)]
NestL == Pair(Pair(Leaf(1), Leaf(2)), Leaf(3))
NestR == Pair(Leaf(1), Pair(Leaf(2), Leaf(3)))
Trees == {Pair(Leaf(1), Leaf(2)), NestL, NestR}
             \cup {VecOf(LeafSeq(n)) : n \in 0..MaxVec}

\* number of leaf members of a composite
Size(m) ==
    CASE m.k = "vec" -> Len(m.ms)
      [] m = NestL \/ m = NestR -> 3
      [] OTHER -> 2

\* App.xidlehook: the chain ((), Vec<Box<dyn Module>>) with n user modules
BoxSeq(n) == [i \in 1..n |-> Box(Leaf(i))]
DaemonChains == {Pair(Unit, VecOf(BoxSeq(n))) : n \in 0..MaxVec}
\* number of user modules of the daemon's chain
ChainSize(m) == Len(m.b.ms)

ProgressOutcomes == {"Continue", "Abort", "Stop", "Fail"}
UnitOutcomes == {"Ok", "Fail"}


NoOuts == <<>>

\* one action per operation of the trait: the composite m is called with
\* members answering outs
Call_pre_timer ==
    \E m \in Trees : \E outs \in [1..Size(m) -> ProgressOutcomes] :
        /\ modTree' = m
        /\ modOp' = "pre_timer"
        /\ modOuts' = outs
        /\ modResult' = pre_timer(m, outs).res
        /\ modCalls' = pre_timer(m, outs).calls
        /\ UNCHANGED loopVars
        /\ UNCHANGED timerVars

Call_post_timer ==
    \E m \in Trees : \E outs \in [1..Size(m) -> ProgressOutcomes] :
        /\ modTree' = m
        /\ modOp' = "post_timer"
        /\ modOuts' = outs
        /\ modResult' = post_timer(m, outs).res
        /\ modCalls' = post_timer(m, outs).calls
        /\ UNCHANGED loopVars
        /\ UNCHANGED timerVars

Call_warning ==
    \E m \in Trees : \E outs \in [1..Size(m) -> UnitOutcomes] :
        /\ modTree' = m
        /\ modOp' = "warning"
        /\ modOuts' = outs
        /\ modResult' = warning(m, outs).res
        /\ modCalls' = warning(m, outs).calls
        /\ UNCHANGED loopVars
        /\ UNCHANGED timerVars

Call_reset ==
    \E m \in Trees : \E outs \in [1..Size(m) -> UnitOutcomes] :
        /\ modTree' = m
        /\ modOp' = "reset"
        /\ modOuts' = outs
        /\ modResult' = reset(m, outs).res
        /\ modCalls' = reset(m, outs).calls
        /\ UNCHANGED loopVars
        /\ UNCHANGED timerVars

\* the same operations, called on the daemon's chain
Chain_pre_timer ==
    \E m \in DaemonChains : \E outs \in [1..ChainSize(m) -> ProgressOutcomes] :
        /\ modTree' = m
        /\ modOp' = "pre_timer"
        /\ modOuts' = outs
        /\ modResult' = pre_timer(m, outs).res
        /\ modCalls' = pre_timer(m, outs).calls
        /\ UNCHANGED loopVars
        /\ UNCHANGED timerVars

Chain_post_timer ==
    \E m \in DaemonChains : \E outs \in [1..ChainSize(m) -> ProgressOutcomes] :
        /\ modTree' = m
        /\ modOp' = "post_timer"
        /\ modOuts' = outs
        /\ modResult' = post_timer(m, outs).res
        /\ modCalls' = post_timer(m, outs).calls
        /\ UNCHANGED loopVars
        /\ UNCHANGED timerVars

Chain_warning ==
    \E m \in DaemonChains : \E outs \in [1..ChainSize(m) -> UnitOutcomes] :
        /\ modTree' = m
        /\ modOp' = "warning"
        /\ modOuts' = outs
        /\ modResult' = warning(m, outs).res
        /\ modCalls' = warning(m, outs).calls
        /\ UNCHANGED loopVars
        /\ UNCHANGED timerVars

Chain_reset ==
    \E m \in DaemonChains : \E outs \in [1..ChainSize(m) -> UnitOutcomes] :
        /\ modTree' = m
        /\ modOp' = "reset"
        /\ modOuts' = outs
        /\ modResult' = reset(m, outs).res
        /\ modCalls' = reset(m, outs).calls
        /\ UNCHANGED loopVars
        /\ UNCHANGED timerVars

\* =========================================================================
\* xidlehook-daemon/src/main.rs
\* =========================================================================

\* an entry of the log: what main_loop did, and for which command
Ev(e, c) == [e |-> e, c |-> c]

\* socket::Message, numbered in the order the socket task sends them
Msg(n, kind, val) == [n |-> n, kind |-> kind, val |-> val]
MsgKinds == {Msg(0, "set_disabled", TRUE), Msg(0, "set_disabled", FALSE),
             Msg(0, "get_idle", FALSE), Msg(0, "quit", FALSE)}

Signals == {"SIGINT", "SIGTERM"}

\* CmdTimer::set_disabled
set_disabled_OnlyDisables(val) == TRUE

set_disabled(val) == val

\* App::handle_socket: Ok(Some(reply)), Ok(None) for quit, or Err; fails
\* says whether the idle-time query of get_idle fails
handle_socket(msg, fails) ==
    CASE msg.kind = "quit" -> [res |-> "None", disabled |-> disabled]
      [] msg.kind = "set_disabled" ->
             [res |-> "Some", disabled |-> set_disabled(msg.val)]
      [] msg.kind = "get_idle" ->
             [res |-> IF fails THEN "Err" ELSE "Some", disabled |-> disabled]

\* the log entry for what handle_socket returned
Handled(res) ==
    CASE res = "Some" -> "handled_some"
      [] res = "None" -> "handled_none"
      [] res = "Err" -> "handled_err"

\* impl Drop for Defer, with the closure of _scope: runs when main_loop
\* returns, whichever way
Defer_drop_AfterJoinOnly(l) ==
    IF socketConfigured /\ (\E i \in 1..Len(l) : l[i].e = "join")
    THEN Append(l, Ev("remove_file", 0)) ELSE l

Defer_drop(l) ==
    IF socketConfigured THEN Append(l, Ev("remove_file", 0)) ELSE l

\* rx.recv() on a channel with a buffered message: the oldest one
recv_Newest(chan) == chan[Len(chan)]

recv(chan) == Head(chan)

\* what is left in the channel after recv took m
Without_KeepsAll(chan, m) == chan

Without(chan, m) ==
    LET i == CHOOSE j \in 1..Len(chan) : chan[j] = m IN
    [j \in 1..(Len(chan) - 1) |-> IF j < i THEN chan[j] ELSE chan[j + 1]]

\* the race a.race(b).race(c): a branch is pending when it cannot resolve
SocketPending ==
    \/ socket_rx = "None"
    \/ socketChan = <<>> /\ socketTxAlive

SignalPending ==
    \/ signal_rx = "None"
    \/ signalChan = <<>> /\ signalTxAlive

\* Selected::Socket(Some((msg, reply))): where the arm goes after
\* handle_socket returned h
SocketArm_NoReply(h) ==
    CASE h = "Some" -> "loop"
      [] h = "None" -> "shutdown"
      [] h = "Err" -> "returned"

SocketArm(h) ==
    CASE h = "Some" -> "reply"
      [] h = "None" -> "shutdown"
      [] h = "Err" -> "returned"

\* Selected::Socket(None): socket_rx = None
SocketClosedArm_KeepsReceiver == [pc |-> "loop", rx |-> "Some"]

SocketClosedArm == [pc |-> "loop", rx |-> "None"]

\* Selected::Signal(Some(sig)): break
SignalArm_JoinsInArm(l, sig) ==
    [pc |-> "shutdown",
     log |-> l \o <<Ev("signal", 0), Ev("sigint_sent", 0), Ev("join", 0)>>]

SignalArm_NoBreak(l, sig) ==
    [pc |-> "loop", log |-> Append(l, Ev("signal", 0))]

SignalArm_OnlySigint(l, sig) ==
    [pc |-> IF sig = "SIGINT" THEN "shutdown" ELSE "loop",
     log |-> Append(l, Ev("signal", 0))]

SignalArm(l, sig) ==
    [pc |-> "shutdown", log |-> Append(l, Ev("signal", 0))]

\* Selected::Signal(None): signal_rx = None
SignalClosedArm == [pc |-> "loop", rx |-> "None"]

\* Selected::Exit(res): res?; break
ExitArm_IgnoresError(res) ==
    [pc |-> "shutdown", e |-> IF res = "Ok" THEN "engine_ok" ELSE "engine_err"]

ExitArm(res) ==
    IF res = "Ok" THEN [pc |-> "shutdown", e |-> "engine_ok"]
    ELSE [pc |-> "returned", e |-> "engine_err"]

\* a.race(b).race(c) resolved with a or b: the engine future c, in phase e,
\* is dropped where it stands
race_drop_Detached(e) == [engine |-> e, droppedIn |-> e]

race_drop(e) == [engine |-> "none", droppedIn |-> e]

\* <CmdTimer as Timer>::disabled, on the flag d of the inner timer
Timer_disabled_Default(d) == FALSE

Timer_disabled(d) == d

\* one tick of the engine on timer 0: a disabled timer is skipped, any other
\* is looked at (time_left, the module hooks, its commands)
TickEv(d) == IF Timer_disabled(d) THEN "tick_skip" ELSE "tick_timer"

\* main_loop returns res: the locals are dropped, _scope among them
Return(res, l) ==
    /\ pc' = "returned"
    /\ result' = res
    /\ log' = Defer_drop(l)
    /\ replyTo' = 0

\* lines 143-165: channels, socket task, _scope, signal handler thread;
\* handle_signals(signal_tx)? may fail
Start ==
    /\ pc = "start"
    /\ \/ /\ pc' = "loop"
          /\ log' = Append(log, Ev("signal_thread_started", 0))
          /\ UNCHANGED <<result, replyTo>>
       \/ Return("Err", log)
    /\ UNCHANGED <<socketConfigured, socketChan, socketTxAlive, signalChan,
                   signalTxAlive, socket_rx, signal_rx, disabled, sent,
                   signalled, engine, ticks, droppedIn, lastTick>>
    /\ UNCHANGED modVars
    /\ UNCHANGED timerVars

\* Selected::Socket(Some((msg, reply))), lines 196-203 up to the send
RecvSocket ==
    /\ pc = "loop"
    /\ socket_rx = "Some"
    /\ socketChan # <<>>
    /\ LET msg == recv(socketChan) IN
       \E fails \in BOOLEAN :
         LET h == handle_socket(msg, fails)
             l == log \o <<Ev("recv", msg.n), Ev(Handled(h.res), msg.n)>> IN
         /\ socketChan' = Without(socketChan, msg)
         /\ disabled' = h.disabled
         /\ IF SocketArm(h.res) = "returned"
            THEN Return("Err", l)
            ELSE /\ pc' = SocketArm(h.res)
                 /\ log' = l
                 /\ replyTo' = IF SocketArm(h.res) = "reply" THEN msg.n ELSE 0
                 /\ UNCHANGED result
    /\ engine' = race_drop(engine).engine
    /\ droppedIn' = race_drop(engine).droppedIn
    /\ UNCHANGED <<socketConfigured, socketTxAlive, signalChan, signalTxAlive,
                   socket_rx, signal_rx, sent, signalled, ticks, lastTick>>
    /\ UNCHANGED modVars
    /\ UNCHANGED timerVars

\* task::block_on(reply.send(response)), line 203
SendReply ==
    /\ pc = "reply"
    /\ log' = Append(log, Ev("reply", replyTo))
    /\ replyTo' = 0
    /\ pc' = "loop"
    /\ UNCHANGED <<socketConfigured, socketChan, socketTxAlive, signalChan,
                   signalTxAlive, socket_rx, signal_rx, engine, disabled,
                   sent, signalled, result, ticks, droppedIn, lastTick>>
    /\ UNCHANGED modVars
    /\ UNCHANGED timerVars

\* Selected::Socket(None), line 205
SocketClosed ==
    /\ pc = "loop"
    /\ socket_rx = "Some"
    /\ socketChan = <<>>
    /\ ~socketTxAlive
    /\ pc' = SocketClosedArm.pc
    /\ socket_rx' = SocketClosedArm.rx
    /\ log' = Append(log, Ev("socket_closed", 0))
    /\ engine' = race_drop(engine).engine
    /\ droppedIn' = race_drop(engine).droppedIn
    /\ UNCHANGED <<socketConfigured, socketChan, socketTxAlive, signalChan,
                   signalTxAlive, signal_rx, disabled, replyTo, sent,
                   signalled, result, ticks, lastTick>>
    /\ UNCHANGED modVars
    /\ UNCHANGED timerVars

\* Selected::Signal(Some(sig)), lines 209-211; b is polled after a
RecvSignal ==
    /\ pc = "loop"
    /\ SocketPending
    /\ signal_rx = "Some"
    /\ signalChan # <<>>
    /\ LET sig == recv(signalChan) IN
       /\ signalChan' = Without(signalChan, sig)
       /\ pc' = SignalArm(log, sig).pc
       /\ log' = SignalArm(log, sig).log
    /\ engine' = race_drop(engine).engine
    /\ droppedIn' = race_drop(engine).droppedIn
    /\ UNCHANGED <<socketConfigured, socketChan, socketTxAlive, signalTxAlive,
                   socket_rx, signal_rx, disabled, replyTo, sent, signalled,
                   result, ticks, lastTick>>
    /\ UNCHANGED modVars
    /\ UNCHANGED timerVars

\* Selected::Signal(None), line 213
SignalClosed ==
    /\ pc = "loop"
    /\ SocketPending
    /\ signal_rx = "Some"
    /\ signalChan = <<>>
    /\ ~signalTxAlive
    /\ pc' = SignalClosedArm.pc
    /\ signal_rx' = SignalClosedArm.rx
    /\ log' = Append(log, Ev("signal_closed", 0))
    /\ engine' = race_drop(engine).engine
    /\ droppedIn' = race_drop(engine).droppedIn
    /\ UNCHANGED <<socketConfigured, socketChan, socketTxAlive, signalChan,
                   signalTxAlive, socket_rx, disabled, replyTo, sent,
                   signalled, result, ticks, lastTick>>
    /\ UNCHANGED modVars
    /\ UNCHANGED timerVars

\* c is polled after a and b: self.xidlehook.main_async(&self.xcb) starts
\* and asks the idle-time source
EngineStart ==
    /\ pc = "loop"
    /\ SocketPending
    /\ SignalPending
    /\ engine = "none"
    /\ engine' = "probing"
    /\ log' = Append(log, Ev("engine_start", 0))
    /\ UNCHANGED <<pc, socketConfigured, socketChan, socketTxAlive,
                   signalChan, signalTxAlive, socket_rx, signal_rx, disabled,
                   replyTo, sent, signalled, result, ticks, droppedIn, lastTick>>
    /\ UNCHANGED modVars
    /\ UNCHANGED timerVars

\* the idle time arrives: the engine goes over the timers, asking each
\* timer.disabled(), and then waits for the next tick
EngineTick ==
    /\ pc = "loop"
    /\ SocketPending
    /\ SignalPending
    /\ engine = "probing"
    /\ ticks < MaxTicks
    /\ engine' = "sleeping"
    /\ ticks' = ticks + 1
    /\ lastTick' = TickEv(disabled)
    /\ UNCHANGED <<pc, socketConfigured, socketChan, socketTxAlive,
                   signalChan, signalTxAlive, socket_rx, signal_rx, disabled,
                   replyTo, sent, signalled, result, log, droppedIn>>
    /\ UNCHANGED modVars
    /\ UNCHANGED timerVars

\* the wait between two ticks is over: the engine asks the idle-time source
EngineWake ==
    /\ pc = "loop"
    /\ SocketPending
    /\ SignalPending
    /\ engine = "sleeping"
    /\ engine' = "probing"
    /\ UNCHANGED <<pc, socketConfigured, socketChan, socketTxAlive,
                   signalChan, signalTxAlive, socket_rx, signal_rx, disabled,
                   replyTo, sent, signalled, result, log, ticks, droppedIn,
                   lastTick>>
    /\ UNCHANGED modVars
    /\ UNCHANGED timerVars

\* Selected::Exit(res), lines 216-219: res?; break
EngineExit ==
    /\ pc = "loop"
    /\ SocketPending
    /\ SignalPending
    /\ engine = "probing"
    /\ \E res \in {"Ok", "Err"} :
         IF ExitArm(res).pc = "returned"
         THEN Return("Err", Append(log, Ev(ExitArm(res).e, 0)))
         ELSE /\ pc' = ExitArm(res).pc
              /\ log' = Append(log, Ev(ExitArm(res).e, 0))
              /\ UNCHANGED <<result, replyTo>>
    /\ engine' = "none"
    /\ droppedIn' = "none"
    /\ UNCHANGED <<socketConfigured, socketChan, socketTxAlive, signalChan,
                   signalTxAlive, socket_rx, signal_rx, disabled, sent,
                   signalled, ticks, lastTick>>
    /\ UNCHANGED modVars
    /\ UNCHANGED timerVars

\* signal_handler::handler(SIGINT), line 225
Shutdown ==
    /\ pc = "shutdown"
    /\ pc' = "join"
    /\ log' = Append(log, Ev("sigint_sent", 0))
    /\ UNCHANGED <<socketConfigured, socketChan, socketTxAlive, signalChan,
                   signalTxAlive, socket_rx, signal_rx, engine, disabled,
                   replyTo, sent, signalled, result, ticks, droppedIn, lastTick>>
    /\ UNCHANGED modVars
    /\ UNCHANGED timerVars

\* signal_thread.join().unwrap()?; Ok(()), lines 227-229
Join ==
    /\ pc = "join"
    /\ \E res \in {"Ok", "Err"} :
         Return(res, Append(log, Ev("join", IF res = "Err" THEN 1 ELSE 0)))
    /\ signalTxAlive' = FALSE
    /\ UNCHANGED <<socketConfigured, socketChan, socketTxAlive, signalChan,
                   socket_rx, signal_rx, disabled, sent, signalled, engine,
                   ticks, droppedIn, lastTick>>
    /\ UNCHANGED modVars
    /\ UNCHANGED timerVars

\* --- the socket task and the signal thread

\* socket::main_loop hands a decoded command to the main loop
SocketSend ==
    /\ socketConfigured
    /\ socketTxAlive
    /\ pc \notin {"start", "returned"}
    /\ Len(socketChan) < SocketCap
    /\ sent < MaxCmds
    /\ \E k \in MsgKinds :
         socketChan' = Append(socketChan, Msg(sent + 1, k.kind, k.val))
    /\ sent' = sent + 1
    /\ UNCHANGED <<pc, socketConfigured, socketTxAlive, signalChan,
                   signalTxAlive, socket_rx, signal_rx, engine, disabled,
                   replyTo, signalled, result, log, ticks, droppedIn,
                   lastTick>>
    /\ UNCHANGED modVars
    /\ UNCHANGED timerVars

\* socket::main_loop ends: socket_tx is dropped
SocketTaskExit ==
    /\ socketConfigured
    /\ socketTxAlive
    /\ pc \notin {"start", "returned"}
    /\ socketTxAlive' = FALSE
    /\ UNCHANGED <<pc, socketConfigured, socketChan, signalChan,
                   signalTxAlive, socket_rx, signal_rx, engine, disabled,
                   replyTo, sent, signalled, result, log, ticks, droppedIn,
                   lastTick>>
    /\ UNCHANGED modVars
    /\ UNCHANGED timerVars

\* the signal thread forwards a delivered signal
SignalForward ==
    /\ signalTxAlive
    /\ pc \notin {"start", "returned"}
    /\ Len(signalChan) < SignalCap
    /\ signalled < MaxSignals
    /\ \E sig \in Signals : signalChan' = Append(signalChan, sig)
    /\ signalled' = signalled + 1
    /\ UNCHANGED <<pc, socketConfigured, socketChan, socketTxAlive,
                   signalTxAlive, socket_rx, signal_rx, engine, disabled,
                   replyTo, sent, result, log, ticks, droppedIn, lastTick>>
    /\ UNCHANGED modVars
    /\ UNCHANGED timerVars

\* the signal thread ends: signal_tx is dropped
SignalThreadExit ==
    /\ signalTxAlive
    /\ pc \notin {"start", "returned"}
    /\ signalTxAlive' = FALSE
    /\ UNCHANGED <<pc, socketConfigured, socketChan, socketTxAlive,
                   signalChan, socket_rx, signal_rx, engine, disabled,
                   replyTo, sent, signalled, result, log, ticks, droppedIn,
                   lastTick>>
    /\ UNCHANGED modVars
    /\ UNCHANGED timerVars

\* --- specifications

\* =========================================================================
\* xidlehook-daemon/src/timer.rs
\* =========================================================================

\* Option<T>: None, or Some(v)
None == <<>>
Some(v) == <<v>>

\* the three hooks of a timer
Hooks == {"activation", "abortion", "deactivation"}

\* std::process::Command built by Command::new(program) and args(..)
Command(program, args) == [program |-> program, args |-> args]
\* the argv a Command runs
Argv(cmd) == <<cmd.program>> \o cmd.args

\* Inner { time, ..Default::default() }: no command, not disabled, Idle
Inner_default(time) ==
    [time |-> time, disabled |-> FALSE, state |-> "Idle",
     activation |-> None, abortion |-> None, deactivation |-> None]

\* from_parts: Some(v).filter(|v| !v.is_empty())
from_parts_hook(v) == IF v # <<>> THEN Some(v) ELSE None

\* from_shell: Some(s).filter(|s| !s.is_empty())
\*                    .map(|s| vec!["/bin/sh", "-c", s])
from_shell_hook_NoFilter(s) == Some(<<"/bin/sh", "-c", s>>)

from_shell_hook(s) ==
    LET filtered == IF s # "" THEN Some(s) ELSE None IN
    IF filtered = None THEN None
    ELSE Some(<<"/bin/sh", "-c", filtered[1]>>)

\* sync, for one hook: Command::new(&parts[0]) with args(&parts[1..])
sync_hook(field) ==
    IF field = None THEN None
    ELSE Some(Command(field[1][1], Tail(field[1])))

\* CmdTimer::sync: propagate my fields to the inner timer
sync(me) ==
    [me EXCEPT !.inner.activation = sync_hook(me.activation),
               !.inner.abortion = sync_hook(me.abortion),
               !.inner.deactivation = sync_hook(me.deactivation)]

\* CmdTimer::from_parts
from_parts(time, activation, abortion, deactivation) ==
    sync([inner |-> Inner_default(time),
          activation |-> from_parts_hook(activation),
          abortion |-> from_parts_hook(abortion),
          deactivation |-> from_parts_hook(deactivation)])

\* CmdTimer::from_shell
from_shell(time, activation, abortion, deactivation) ==
    sync([inner |-> Inner_default(time),
          activation |-> from_shell_hook(activation),
          abortion |-> from_shell_hook(abortion),
          deactivation |-> from_shell_hook(deactivation)])

\* CmdTimer::get_disabled
get_disabled(me) == me.inner.disabled

\* what time_left answers
Never == [k |-> "never", d |-> 0]
Due == [k |-> "due", d |-> 0]
Left(d) == [k |-> "left", d |-> d]

\* the inner timer's time_left: a disabled timer is never due, otherwise the
\* timer is due once the idle time has reached its threshold
Inner_time_left(inner, idle_time) ==
    IF inner.disabled THEN Never
    ELSE IF idle_time >= inner.time THEN Due
    ELSE Left(inner.time - idle_time)

\* the inner timer runs the command of a hook, if there is one: the argv of
\* the process spawned, or nothing
Inner_spawn(cmd) == IF cmd = None THEN <<>> ELSE <<Argv(cmd[1])>>

\* the inner timer's activate, abort and deactivate: the timer after the
\* call and what the call spawned
Inner_activate(inner) ==
    [inner |-> [inner EXCEPT !.state = "Active"],
     spawned |-> Inner_spawn(inner.activation), hook |-> "activation"]

Inner_abort(inner) ==
    [inner |-> [inner EXCEPT !.state = "Idle"],
     spawned |-> Inner_spawn(inner.abortion), hook |-> "abortion"]

Inner_deactivate(inner) ==
    [inner |-> [inner EXCEPT !.state = "Idle"],
     spawned |-> Inner_spawn(inner.deactivation), hook |-> "deactivation"]

\* the result of a forwarded call, put back into the CmdTimer
Forwarded(me, r) ==
    [me |-> [me EXCEPT !.inner = r.inner], spawned |-> r.spawned,
     hook |-> r.hook]

\* impl Timer for CmdTimer: every method forwards to the inner timer
time_left(me, idle_time) == Inner_time_left(me.inner, idle_time)

activate(me) == Forwarded(me, Inner_activate(me.inner))

abort_RunsDeactivation(me) == Forwarded(me, Inner_deactivate(me.inner))

abort(me) == Forwarded(me, Inner_abort(me.inner))

deactivate(me) == Forwarded(me, Inner_deactivate(me.inner))

\* an operation called on the timer: its name, argument and result
Op(op, arg, ret) == [op |-> op, arg |-> arg, ret |-> ret]
NoOp == Op("none", 0, <<>>)

\* the arguments the constructors are called with
ShellStrings == {"", "on", "off"}
PartsVectors == {<<>>, <<"on">>, <<"off", "now">>}
Args(kind, time, activation, abortion, deactivation) ==
    [kind |-> kind, time |-> time, activation |-> activation,
     abortion |-> abortion, deactivation |-> deactivation]
NoArgs == Args("none", 0, "", "", "")

NoCounts == [h \in Hooks |-> 0]
NoCalls == [activate |-> 0, abort |-> 0, deactivate |-> 0]

Built == ctorArgs.kind # "none"

Timer_from_shell ==
    \E time \in 0..MaxTime : \E a \in ShellStrings : \E b \in ShellStrings :
    \E c \in ShellStrings :
        /\ ~Built
        /\ timer' = from_shell(time, a, b, c)
        /\ ctorArgs' = Args("from_shell", time, a, b, c)
        /\ lastOp' = Op("from_shell", 0, <<>>)
        /\ prevOp' = lastOp
        /\ UNCHANGED <<timerCalls, timerSpawns>>
        /\ UNCHANGED modVars
        /\ UNCHANGED loopVars

Timer_from_parts ==
    \E time \in 0..MaxTime : \E a \in PartsVectors : \E b \in PartsVectors :
    \E c \in PartsVectors :
        /\ ~Built
        /\ timer' = from_parts(time, a, b, c)
        /\ ctorArgs' = Args("from_parts", time, a, b, c)
        /\ lastOp' = Op("from_parts", 0, <<>>)
        /\ prevOp' = lastOp
        /\ UNCHANGED <<timerCalls, timerSpawns>>
        /\ UNCHANGED modVars
        /\ UNCHANGED loopVars

Timer_set_disabled ==
    \E val \in BOOLEAN :
        /\ Built
        /\ timer' = [timer EXCEPT !.inner.disabled = set_disabled(val)]
        /\ lastOp' = Op("set_disabled", val, <<>>)
        /\ prevOp' = lastOp
        /\ UNCHANGED <<ctorArgs, timerCalls, timerSpawns>>
        /\ UNCHANGED modVars
        /\ UNCHANGED loopVars

Timer_time_left ==
    \E idle_time \in 0..(MaxTime + 1) :
        /\ Built
        /\ lastOp' = Op("time_left", idle_time, time_left(timer, idle_time))
        /\ prevOp' = lastOp
        /\ UNCHANGED <<timer, ctorArgs, timerCalls, timerSpawns>>
        /\ UNCHANGED modVars
        /\ UNCHANGED loopVars

\* activate is called on a timer that is Idle
Timer_activate ==
    /\ Built
    /\ timer.inner.state = "Idle"
    /\ timerCalls.activate < MaxCycles
    /\ LET r == activate(timer) IN
       /\ timer' = r.me
       /\ lastOp' = Op("activate", 0, r.spawned)
       /\ timerSpawns' = [timerSpawns EXCEPT ![r.hook] = @ + Len(r.spawned)]
    /\ timerCalls' = [timerCalls EXCEPT !.activate = @ + 1]
    /\ prevOp' = lastOp
    /\ UNCHANGED ctorArgs
    /\ UNCHANGED modVars
    /\ UNCHANGED loopVars

\* abort and deactivate are only valid from Active
Timer_abort ==
    /\ Built
    /\ timer.inner.state = "Active"
    /\ LET r == abort(timer) IN
       /\ timer' = r.me
       /\ lastOp' = Op("abort", 0, r.spawned)
       /\ timerSpawns' = [timerSpawns EXCEPT ![r.hook] = @ + Len(r.spawned)]
    /\ timerCalls' = [timerCalls EXCEPT !.abort = @ + 1]
    /\ prevOp' = lastOp
    /\ UNCHANGED ctorArgs
    /\ UNCHANGED modVars
    /\ UNCHANGED loopVars

Timer_deactivate ==
    /\ Built
    /\ timer.inner.state = "Active"
    /\ LET r == deactivate(timer) IN
       /\ timer' = r.me
       /\ lastOp' = Op("deactivate", 0, r.spawned)
       /\ timerSpawns' = [timerSpawns EXCEPT ![r.hook] = @ + Len(r.spawned)]
    /\ timerCalls' = [timerCalls EXCEPT !.deactivate = @ + 1]
    /\ prevOp' = lastOp
    /\ UNCHANGED ctorArgs
    /\ UNCHANGED modVars
    /\ UNCHANGED loopVars

\* no CmdTimer has been built
TimerInit ==
    /\ timer = from_parts(0, <<>>, <<>>, <<>>)
    /\ ctorArgs = NoArgs
    /\ lastOp = NoOp
    /\ prevOp = NoOp
    /\ timerCalls = NoCalls
    /\ timerSpawns = NoCounts

ModInit ==
    /\ modTree = VecOf(<<>>)
    /\ modOp = "none"
    /\ modOuts = NoOuts
    /\ modResult = OkU
    /\ modCalls = <<>>

LoopInit ==
    /\ pc = "start"
    /\ socketChan = <<>>
    /\ socketTxAlive = TRUE
    /\ signalChan = <<>>
    /\ signalTxAlive = TRUE
    /\ socket_rx = "Some"
    /\ signal_rx = "Some"
    /\ engine = "none"
    /\ disabled = FALSE
    /\ replyTo = 0
    /\ sent = 0
    /\ signalled = 0
    /\ result = "none"
    /\ log = <<>>
    /\ ticks = 0
    /\ droppedIn = "none"
    /\ lastTick = "none"

Init ==
    /\ ModInit
    /\ LoopInit
    /\ TimerInit
    /\ socketConfigured \in BOOLEAN

Next ==
    \/ Start
    \/ RecvSocket
    \/ SendReply
    \/ SocketClosed
    \/ RecvSignal
    \/ SignalClosed
    \/ EngineStart
    \/ EngineTick
    \/ EngineWake
    \/ EngineExit
    \/ Shutdown
    \/ Join
    \/ SocketSend
    \/ SocketTaskExit
    \/ SignalForward
    \/ SignalThreadExit

Spec == Init /\ [][Next]_vars

\* task::block_on(a.race(b).race(c)) resolves once the socket or the signal
\* branch is ready, the arm then runs, and reply.send completes
LoopStep ==
    \/ RecvSocket
    \/ SendReply
    \/ SocketClosed
    \/ RecvSignal
    \/ SignalClosed

SpecLive == Init /\ [][Next]_vars /\ WF_vars(LoopStep)

InitModules ==
    /\ ModInit
    /\ LoopInit
    /\ TimerInit
    /\ socketConfigured = FALSE

NextModules ==
    \/ Call_pre_timer
    \/ Call_post_timer
    \/ Call_warning
    \/ Call_reset

SpecModules == InitModules /\ [][NextModules]_vars

NextChain ==
    \/ Chain_pre_timer
    \/ Chain_post_timer
    \/ Chain_warning
    \/ Chain_reset

SpecChain == InitModules /\ [][NextChain]_vars

NextTimer ==
    \/ Timer_from_shell
    \/ Timer_from_parts
    \/ Timer_set_disabled
    \/ Timer_time_left
    \/ Timer_activate
    \/ Timer_abort
    \/ Timer_deactivate

SpecTimer == InitModules /\ [][NextTimer]_vars


\* =========================================================================
\* properties
\* =========================================================================

\* positions of the log whose entry is e
At(e) == {i \in 1..Len(log) : log[i].e = e}
\* positions of the log whose entry is e for command c
AtCmd(e, c) == {i \in 1..Len(log) : log[i] = Ev(e, c)}
\* commands that main_loop received
Received == {log[i].c : i \in At("recv")}
\* the members 1..n, in order
UpTo(n) == [i \in 1..n |-> i]
\* the first member whose answer is in the set bad, or the last member
FirstIn(outs, bad) ==
    IF \E i \in DOMAIN outs : outs[i] \in bad
    THEN CHOOSE i \in DOMAIN outs :
             outs[i] \in bad /\ \A j \in 1..(i - 1) : outs[j] \notin bad
    ELSE Len(outs)

\* C1 (as claimed): whenever main_loop has returned after the signal thread
\* was started, the synthetic interrupt was sent and the thread was joined.
C1_ShutdownOnEveryExit ==
    (pc = "returned" /\ At("signal_thread_started") # {})
        => At("sigint_sent") # {} /\ At("join") # {}

\* C2 (as claimed): warning and reset reach every member of the composite,
\* in order, whatever the members return.
C2_DeliveredToAll ==
    modOp \in {"warning", "reset"} => modCalls = UpTo(Size(modTree))

\* C2 (amended): warning and reset reach the members in order up to and
\* including the first member that fails; no member after it is called.
C2_DeliveredUpToFirstFailure ==
    modOp \in {"warning", "reset"}
        => modCalls = UpTo(FirstIn(modOuts, {"Fail"}))

C2_Witness ==
    /\ modOp = "warning"
    /\ modTree = Pair(Leaf(1), Leaf(2))
    /\ modOuts = <<"Fail", "Ok">>
    /\ modCalls = <<1>>

\* C3 (as claimed): once the loop is past a received command (back at the
\* top of the loop, or leaving it), that command has exactly one reply.
C3_EveryCommandReplied ==
    pc \in {"loop", "shutdown", "join", "returned"}
        => \A c \in Received : Cardinality(AtCmd("reply", c)) = 1

\* C3 (amended): a command for which handle_socket returns a response gets
\* exactly one reply, sent right after it is handled and before anything else
\* the loop does; a quit command and a command whose handling fails get no
\* reply from the main loop.
C3_ReplyIffResponse ==
    /\ \A i \in At("handled_some") :
           /\ IF i = Len(log) THEN pc = "reply" /\ replyTo = log[i].c
              ELSE log[i + 1] = Ev("reply", log[i].c)
           /\ Cardinality(AtCmd("reply", log[i].c)) <= 1
    /\ \A i \in At("handled_none") \cup At("handled_err") :
           /\ AtCmd("reply", log[i].c) = {}
           /\ pc # "reply"
    /\ \A i \in At("reply") : i > 1 /\ log[i - 1] = Ev("handled_some", log[i].c)

C3_Witness ==
    /\ At("reply") # {}
    /\ At("handled_none") # {}
    /\ pc = "returned"

\* C4: pre_timer and post_timer of a composite call the members in order; the
\* first Abort or Stop is returned unchanged and ends the call; when every
\* member answers Continue all are called and the composite answers Continue.
C4_ShortCircuit ==
    modOp \in {"pre_timer", "post_timer"} =>
        LET k == FirstIn(modOuts, {"Abort", "Stop", "Fail"}) IN
        /\ (k > 0 /\ modOuts[k] \in {"Abort", "Stop"})
               => modResult = OkP(modOuts[k]) /\ modCalls = UpTo(k)
        /\ (\A i \in DOMAIN modOuts : modOuts[i] = "Continue")
               => modResult = OkP("Continue")
                  /\ modCalls = UpTo(Size(modTree))

C4_Witness ==
    /\ modOp = "pre_timer"
    /\ modTree = VecOf(LeafSeq(3))
    /\ modOuts = <<"Continue", "Stop", "Abort">>
    /\ modResult = OkP("Stop")
    /\ modCalls = <<1, 2>>

\* C5: ((A, B), C) and (A, (B, C)) return the same value and call the same
\* members in the same order, for each of the four operations.
C5_Associative ==
    (modOp # "none" /\ modTree \in {NestL, NestR}) =>
        /\ Call(modOp, NestL, modOuts) = Call(modOp, NestR, modOuts)
        /\ Ret(modResult, modCalls)
               = Call(modOp, IF modTree = NestL THEN NestR ELSE NestL, modOuts)

C5_Witness ==
    /\ modOp = "pre_timer"
    /\ modTree = NestL
    /\ modOuts = <<"Continue", "Abort", "Stop">>
    /\ modResult = OkP("Abort")
    /\ modCalls = <<1, 2>>

\* C6: with a socket configured, removing the socket file is the last thing
\* main_loop does on every return, after the join when there was one.
C6_RemoveIsLast ==
    (pc = "returned" /\ socketConfigured) =>
        /\ log # <<>>
        /\ log[Len(log)] = Ev("remove_file", 0)
        /\ \A i \in At("join") : \E j \in At("remove_file") : i < j

C6_Witness ==
    /\ pc = "returned"
    /\ socketConfigured
    /\ result = "Err"
    /\ At("engine_err") # {}
    /\ At("join") = {}

\* C7: the signal thread is joined at most once and the socket file is
\* removed at most once.
C7_AtMostOnce ==
    /\ Cardinality(At("join")) <= 1
    /\ Cardinality(At("remove_file")) <= 1

C7_Witness ==
    /\ pc = "returned"
    /\ Cardinality(At("join")) = 1
    /\ Cardinality(At("remove_file")) = 1
    /\ socketChan # <<>>
    /\ signalChan # <<>>
    /\ At("handled_none") # {}

\* C8: once the loop has taken a signal from the signal channel, it handles
\* no command, sends no reply and starts no engine run.
C8_SignalEndsLoop ==
    \A i \in At("signal") : \A j \in (i + 1)..Len(log) :
        /\ log[j].e \in {"sigint_sent", "join", "remove_file"}
        /\ pc \in {"shutdown", "join", "returned"}

C8_Witness ==
    /\ At("signal") # {}
    /\ socketChan # <<>>
    /\ pc = "returned"

\* C9: seeing a closed channel neither ends nor fails the loop; the receiver
\* is set to None, the branch is never taken again, and the loop goes on.
C9_ClosedBranchDisabled ==
    /\ \A i \in At("socket_closed") :
           /\ socket_rx = "None"
           /\ \A j \in (i + 1)..Len(log) :
                  log[j].e \notin {"socket_closed", "recv"}
           /\ i = Len(log) => pc = "loop" /\ result = "none"
    /\ \A i \in At("signal_closed") :
           /\ signal_rx = "None"
           /\ \A j \in (i + 1)..Len(log) :
                  log[j].e \notin {"signal_closed", "signal"}
           /\ i = Len(log) => pc = "loop" /\ result = "none"

C9_Witness ==
    \E i \in At("signal_closed") : \E j \in At("reply") : \E k \in At("socket_closed") :
        i < j /\ j < k /\ At("engine_ok") # {}

\* C10: commands are received in the order they were sent, one at a time,
\* and the reply to a command is sent before the next iteration starts.
C10_InOrderReplyFirst ==
    /\ \A i, j \in At("recv") : i < j => log[i].c < log[j].c
    /\ \A i \in At("recv") :
           /\ i < Len(log)
           /\ log[i + 1].c = log[i].c
           /\ log[i + 1].e \in {"handled_some", "handled_none", "handled_err"}
    /\ pc = "loop" =>
           \A i \in At("handled_some") :
               i < Len(log) /\ log[i + 1] = Ev("reply", log[i].c)
    /\ \A i \in At("handled_some") : \A j \in At("recv") :
           i < j => \E r \in AtCmd("reply", log[i].c) : r < j

C10_Witness ==
    /\ AtCmd("reply", 1) # {}
    /\ AtCmd("reply", 2) # {}
    /\ AtCmd("recv", 3) # {}


\* positions of main_loop from which the loop is not entered again
ExitStates == {"shutdown", "join", "returned"}
\* the loop was left because of a signal or a quit command
ExitBySignalOrQuit ==
    pc \in ExitStates /\ (At("signal") # {} \/ At("handled_none") # {})

\* C11 (as claimed): when a signal or a quit command ends the loop, the
\* engine run is not dropped in the middle of an idle-time probe.
C11_NotDroppedMidProbe ==
    ExitBySignalOrQuit => droppedIn # "probing"

\* C11 (amended): when a signal or a quit command ends the loop, the engine
\* run is dropped where it stands, possibly in the middle of a probe, and
\* takes no further step: no tick happens before main_loop returns.
C11_DroppedWhereItStands ==
    [][/\ ExitBySignalOrQuit' => engine' = "none"
       /\ ExitBySignalOrQuit =>
              ticks' = ticks /\ lastTick' = lastTick /\ droppedIn' = droppedIn]_vars

C11_Witness ==
    /\ pc = "returned"
    /\ At("signal") # {}
    /\ droppedIn = "probing"
    /\ ticks > 0
    /\ engine = "none"

\* this step of the main loop handles set_disabled(v), the oldest command of
\* the socket channel
Applies(v) ==
    /\ socketChan # <<>>
    /\ Head(socketChan).kind = "set_disabled"
    /\ Head(socketChan).val = v
    /\ Len(log') > Len(log)
    /\ log'[Len(log) + 1] = Ev("recv", Head(socketChan).n)

\* C12: a handled set_disabled(v) sets the flag of timer 0 to v, nothing else
\* changes the flag, and every engine tick skips the timer exactly while the
\* flag is set; so every tick after set_disabled(true), from the first one
\* on, skips the timer until set_disabled(false) is handled.
C12_DisabledTimerSkipped ==
    [][/\ Applies(TRUE) => disabled'
       /\ Applies(FALSE) => ~disabled'
       /\ disabled' # disabled => Applies(disabled')
       /\ ticks' # ticks =>
              lastTick' = IF disabled THEN "tick_skip" ELSE "tick_timer"]_vars

C12_Witness ==
    /\ disabled
    /\ lastTick = "tick_skip"
    /\ ticks = 2
    /\ Cardinality(At("handled_some")) = 1
    /\ pc = "loop"

\* the answer of a timer that is not disabled: due once the idle time has
\* reached the threshold the timer was built with
ByThreshold(idle_time) ==
    IF idle_time >= ctorArgs.time THEN Due ELSE Left(ctorArgs.time - idle_time)

\* C13: time_left on a timer whose disabled flag is set answers "never due"
\* for every idle duration; the time_left that directly follows
\* set_disabled(false) answers by the threshold and the idle duration given,
\* the one that directly follows set_disabled(true) answers "never due".
C13_DisabledNeverDue ==
    lastOp.op = "time_left" =>
        /\ get_disabled(timer) => lastOp.ret = Never
        /\ (prevOp.op = "set_disabled" /\ prevOp.arg)
               => lastOp.ret = Never
        /\ (prevOp.op = "set_disabled" /\ ~prevOp.arg)
               => lastOp.ret = ByThreshold(lastOp.arg)

C13_Witness ==
    /\ prevOp.op = "set_disabled"
    /\ ~prevOp.arg
    /\ lastOp.op = "time_left"
    /\ lastOp.arg >= ctorArgs.time
    /\ ctorArgs.time > 0
    /\ lastOp.ret = Due

\* the argv the command of hook h runs, as the constructor was given it
GivenArgv(h) ==
    IF ctorArgs.kind = "from_shell" THEN <<"/bin/sh", "-c", ctorArgs[h]>>
    ELSE ctorArgs[h]
\* the constructor was given no command for hook h
GivenEmpty(h) ==
    IF ctorArgs.kind = "from_shell" THEN ctorArgs[h] = "" ELSE ctorArgs[h] = <<>>
\* what a call for hook h has to spawn
GivenSpawn(h) == IF GivenEmpty(h) THEN <<>> ELSE <<GivenArgv(h)>>

C15_EmptyHookNoSpawn ==
    Built =>
        /\ \A h \in Hooks :
               IF GivenEmpty(h)
               THEN /\ timer[h] = None
                    /\ timer.inner[h] = None
                    /\ timerSpawns[h] = 0
               ELSE /\ timer[h] = Some(GivenArgv(h))
                    /\ timer.inner[h] # None
                    /\ Argv(timer.inner[h][1]) = GivenArgv(h)
        /\ lastOp.op = "activate"
               => /\ timer.inner.state = "Active"
                  /\ lastOp.ret = GivenSpawn("activation")
        /\ lastOp.op \in {"abort", "deactivate"}
               => timer.inner.state = "Idle"
        /\ timerSpawns["activation"]
               = (IF GivenEmpty("activation") THEN 0 ELSE timerCalls.activate)
        /\ timerSpawns["abortion"]
               = (IF GivenEmpty("abortion") THEN 0 ELSE timerCalls.abort)
        /\ timerSpawns["deactivation"]
               = (IF GivenEmpty("deactivation") THEN 0
                  ELSE timerCalls.deactivate)

C15_Witness ==
    /\ ctorArgs.kind = "from_shell"
    /\ ctorArgs.activation = "on"
    /\ ctorArgs.abortion = ""
    /\ timer.activation = Some(<<"/bin/sh", "-c", "on">>)
    /\ lastOp.op = "abort"
    /\ timer.inner.state = "Idle"
    /\ timerCalls.abort = 1
    /\ timerSpawns["abortion"] = 0
    /\ timerSpawns["activation"] = 1

\* C16: in the daemon's chain ((), user modules) every warning reaches the
\* null policy first, which logs it once and returns success, so the chain
\* returns what the user modules return; from pre_timer and post_timer the
\* null policy returns Continue.
C16_NullPolicyLogsAndSucceeds ==
    (modTree \in DaemonChains /\ modOp # "none") =>
        /\ modOp = "warning" =>
               /\ modCalls # <<>>
               /\ modCalls[1] = UnitLog
               /\ \A i \in 2..Len(modCalls) : modCalls[i] # UnitLog
               /\ warning(modTree.a, modOuts).res = OkU
               /\ modResult = warning(modTree.b, modOuts).res
        /\ modOp \in {"pre_timer", "post_timer"} =>
               /\ Call(modOp, modTree.a, modOuts).res = OkP("Continue")
               /\ modResult = Call(modOp, modTree.b, modOuts).res

C16_Witness ==
    /\ modOp = "warning"
    /\ modTree = Pair(Unit, VecOf(BoxSeq(2)))
    /\ modOuts = <<"Ok", "Fail">>
    /\ modCalls = <<UnitLog, 1, 2>>
    /\ modResult = Err(2)

\* C17: warning and reset of a composite (pair or Vec) return success if and
\* only if no member that was called failed; otherwise they return the
\* failure of the first failing member, in sequence order, unchanged.
C17_FirstFailureReturned ==
    modOp \in {"warning", "reset"} =>
        LET failed == {i \in 1..Len(modCalls) : modOuts[modCalls[i]] = "Fail"}
        IN
        /\ (modResult = OkU) <=> (failed = {})
        /\ failed # {} =>
               \E i \in failed :
                   /\ \A j \in failed : i <= j
                   /\ modResult = Err(modCalls[i])
                   /\ \A k \in DOMAIN modOuts :
                          modOuts[k] = "Fail" => modCalls[i] <= k

C17_Witness ==
    /\ modOp = "warning"
    /\ modTree = VecOf(LeafSeq(3))
    /\ modOuts = <<"Ok", "Fail", "Fail">>
    /\ modResult = Err(2)

\* C18: without a join error, main_loop returns Ok exactly when a signal, a
\* quit command or a successful engine completion ended the loop; an engine
\* error or a failed command makes it return Err, and nothing of the loop
\* runs after an engine error.
C18_ResultMatchesExit ==
    LET cleanExit ==
            At("signal") \cup At("handled_none") \cup At("engine_ok") # {}
        failed == At("engine_err") \cup At("handled_err") # {}
    IN  /\ failed => pc = "returned" /\ result = "Err" /\ ~cleanExit
        /\ \A i \in At("engine_err") \cup At("handled_err") :
               \A j \in (i + 1)..Len(log) : log[j].e = "remove_file"
        /\ pc = "returned" =>
               /\ result = "Ok" => cleanExit
               /\ (cleanExit /\ AtCmd("join", 1) = {}) => result = "Ok"

C18_Witness ==
    /\ pc = "returned"
    /\ result = "Err"
    /\ At("engine_err") # {}
    /\ At("reply") # {}

\* C19: the race loses and duplicates nothing. A channel changes only by a
\* send at its end or by the loop taking its oldest message, which the loop
\* then handles; a step in which another branch wins leaves the buffered
\* messages where they are; commands are received at most once, in the order
\* sent; at most SocketCap commands and SignalCap signals are buffered.
C19_NoLossNoDuplicate ==
    /\ [](/\ Len(socketChan) <= SocketCap
          /\ Len(signalChan) <= SignalCap
          /\ \A i, j \in At("recv") : i < j => log[i].c < log[j].c
          /\ \A i \in At("recv") : \A k \in 1..Len(socketChan) :
                 log[i].c < socketChan[k].n
          /\ \A k \in 1..Len(socketChan) :
                 socketChan[k].n = sent - Len(socketChan) + k)
    /\ [][/\ \/ socketChan' = socketChan
             \/ \E k \in MsgKinds :
                    socketChan' = Append(socketChan, Msg(sent + 1, k.kind, k.val))
             \/ /\ socketChan # <<>>
                /\ socketChan' = Tail(socketChan)
                /\ Len(log') > Len(log)
                /\ log'[Len(log) + 1] = Ev("recv", Head(socketChan).n)
          /\ \/ signalChan' = signalChan
             \/ \E sig \in Signals : signalChan' = Append(signalChan, sig)
             \/ /\ signalChan # <<>>
                /\ signalChan' = Tail(signalChan)
                /\ Len(log') > Len(log)
                /\ log'[Len(log) + 1] = Ev("signal", 0)]_vars

C19_Witness ==
    /\ pc = "reply"
    /\ signalChan # <<>>
    /\ sent = SocketCap
    /\ Len(socketChan) = SocketCap - 1
    /\ engine = "none"
    /\ droppedIn = "none"


\* C20: with the main loop running, a signal buffered in the signal channel
\* leads to the end of the loop, although the socket branch is served first
\* as long as commands are buffered.
C20_SignalLeadsToExit ==
    (signalChan # <<>> /\ pc \in {"loop", "reply"}) ~> (pc \in ExitStates)

C20_Witness ==
    /\ pc = "shutdown"
    /\ log[Len(log)] = Ev("signal", 0)
    /\ Cardinality(At("reply")) >= 2
    /\ signalled = 1

====
